---- MODULE Spec2Model ----
(***************************************************************************)
(* Request logging middleware (dist/middleware/index.js).                  *)
(*                                                                         *)
(* Strings are modelled as sequences of tokens so that concatenation,      *)
(* split, trim and "contains" are computed rather than assumed.  An        *)
(* absent / undefined string is the token sequence <<"undefined">>, which  *)
(* is also what a template literal prints for it.                          *)
(***************************************************************************)
EXTENDS Integers, Sequences, FiniteSets, TLC

(***************************************************************************)
(* Bounds                                                                  *)
(***************************************************************************)
\* number of requests dispatched through one middleware instance (Spec)
MaxReq == 2
\* number of requests in the fault-rich specification (SpecFault)
MaxFaultReq == 1
\* number of requests in the configuration specification (SpecConfig)
MaxConfigReq == 1
\* number of requests in the liveness specification (SpecLive)
MaxLiveReq == 2
\* number of requests, and of further middleware instances constructed, in
\* the construction specification (SpecInstances)
MaxInstanceReq == 1
MaxInstances == 2
\* number of requests in the capture specification (SpecCapture)
MaxCaptureReq == 1
\* number of requests in the external-removal specification (SpecRemoval)
MaxRemovalReq == 2

(***************************************************************************)
(* JavaScript values of the configuration object                           *)
(***************************************************************************)
JsAbsent    == [t |-> "absent",    v |-> <<>>]
JsUndefined == [t |-> "undefined", v |-> <<>>]
JsNull      == [t |-> "null",      v |-> <<>>]
JsTrue      == [t |-> "boolean",   v |-> <<"true">>]
JsFalse     == [t |-> "boolean",   v |-> <<"false">>]
JsNum(n)    == [t |-> "number",    v |-> <<n>>]
JsStr(s)    == [t |-> "string",    v |-> s]
JsObj       == [t |-> "object",    v |-> <<"[object Object]">>]

\* JavaScript truthiness
Truthy(x) ==
    CASE x.t = "boolean" -> x.v = <<"true">>
      [] x.t = "number"  -> x.v # <<"0">>
      [] x.t = "string"  -> x.v # <<>>
      [] x.t = "object"  -> TRUE
      [] OTHER           -> FALSE

\* the text a template literal prints for a value
ToText(x) ==
    CASE x.t \in {"absent", "undefined"} -> <<"undefined">>
      [] x.t = "null"                    -> <<"null">>
      [] OTHER                           -> x.v

\* strings of the request: undefined and '' are falsy
UndefS == <<"undefined">>
TruthyS(s) == s # <<>> /\ s # UndefS

\* true when sub occurs in s as a contiguous run of tokens
Contains(s, sub) ==
    \E i \in 0..(Len(s) - Len(sub)) :
        \A j \in 1..Len(sub) : s[i + j] = sub[j]

ConfigKeys == {"logFilePath", "format", "enabled", "includeIp", "includeUserAgent"}

DEFAULT_CONFIG ==
    [logFilePath      |-> JsStr(<<".", "logs", "requests.log">>),
     format           |-> JsStr(<<"json">>),
     enabled          |-> JsTrue,
     includeIp        |-> JsFalse,
     includeUserAgent |-> JsFalse]

\* config?.key : a missing key (or a missing config) reads as undefined
Opt(config, k) == IF config[k] = JsAbsent THEN JsUndefined ELSE config[k]

FormatInvalid(config) ==
    /\ Truthy(Opt(config, "format"))
    /\ Opt(config, "format") \notin {JsStr(<<"json">>), JsStr(<<"text">>)}

PathInvalid(config) ==
    /\ Truthy(Opt(config, "logFilePath"))
    /\ Opt(config, "logFilePath").t # "string"

validateAndMergeConfig(config) ==
    LET mergedConfig == [k \in ConfigKeys |->
                            IF config[k] = JsAbsent THEN DEFAULT_CONFIG[k]
                                                    ELSE config[k]]
        m1 == IF FormatInvalid(config)
              THEN [mergedConfig EXCEPT !.format = JsStr(<<"json">>)]
              ELSE mergedConfig
    IN  IF PathInvalid(config)
        THEN [m1 EXCEPT !.logFilePath = DEFAULT_CONFIG.logFilePath]
        ELSE m1

\* Object.assign(DEFAULT_CONFIG, config) in place of the spread: the merge
\* and the fallbacks are written into the shared defaults object
createRequestLoggerAssign(shared, config) ==
    LET mergedConfig == [k \in ConfigKeys |->
                            IF config[k] = JsAbsent THEN shared[k] ELSE config[k]]
        m1 == IF FormatInvalid(config)
              THEN [mergedConfig EXCEPT !.format = JsStr(<<"json">>)]
              ELSE mergedConfig
        m2 == IF PathInvalid(config)
              THEN [m1 EXCEPT !.logFilePath = mergedConfig.logFilePath]
              ELSE m1
    IN  [finalConfig |-> m2, shared |-> m2, config |-> config]

\* createRequestLogger(config) with the objects it can reach: the shared
\* DEFAULT_CONFIG object and the caller's config object.  The spread
\* copies both into a new object, and the fallbacks are written to that
\* new object; the result has the resolved configuration and the content
\* of the two objects after the call.
createRequestLogger(shared, config) ==
    LET mergedConfig == [k \in ConfigKeys |->
                            IF config[k] = JsAbsent THEN shared[k] ELSE config[k]]
        m1 == IF FormatInvalid(config)
              THEN [mergedConfig EXCEPT !.format = JsStr(<<"json">>)]
              ELSE mergedConfig
        m2 == IF PathInvalid(config)
              THEN [m1 EXCEPT !.logFilePath = shared.logFilePath]
              ELSE m1
    IN  [finalConfig |-> m2, shared |-> shared, config |-> config]

\* the console.warn lines of validateAndMergeConfig, in order
ConfigWarnings(config) ==
    (IF FormatInvalid(config)
     THEN << <<"Invalid log format", " \"">> \o ToText(config.format)
             \o <<"\". Falling back to \"json\".">> >>
     ELSE <<>>)
    \o
    (IF PathInvalid(config)
     THEN << <<"Invalid logFilePath", ". Using default.">> >>
     ELSE <<>>)

(***************************************************************************)
(* Request data capture                                                    *)
(***************************************************************************)
\* an Error object: message, and the code property when it has one
Err(msg, code) == [message |-> msg, hasCode |-> TRUE,  code |-> code]
ErrNoCode(msg) == [message |-> msg, hasCode |-> FALSE, code |-> <<>>]
NoErr          == [message |-> <<>>, hasCode |-> FALSE, code |-> <<"none">>]

TypeErrorUndefined(prop) ==
    ErrNoCode(<<"Cannot read properties of undefined (reading '", prop, "')">>)

\* header.split(',')[0]
RECURSIVE FirstPart(_)
FirstPart(s) ==
    IF s = <<>> \/ Head(s) = "," THEN <<>>
    ELSE <<Head(s)>> \o FirstPart(Tail(s))

\* String.prototype.trim on tokens: " " is the whitespace token
RECURSIVE TrimLeft(_)
TrimLeft(s) == IF s # <<>> /\ Head(s) = " " THEN TrimLeft(Tail(s)) ELSE s
RECURSIVE TrimRight(_)
TrimRight(s) ==
    IF s # <<>> /\ s[Len(s)] = " " THEN TrimRight(SubSeq(s, 1, Len(s) - 1)) ELSE s
Trim(s) == TrimRight(TrimLeft(s))

Field(k, v) == [k |-> k, v |-> v]

\* new Date().toISOString() at clock value now
Timestamp(now) == <<"T", ToString(now), "Z">>

\* the remote address preferred to the forwarded-for header
captureRequestDataSocketFirst(req, config, now) ==
    LET base == << Field("timestamp", Timestamp(now)),
                   Field("method", req.method),
                   Field("url", IF TruthyS(req.originalUrl) THEN req.originalUrl
                                                            ELSE req.url) >>
        fwd  == IF req.xff = UndefS THEN UndefS ELSE Trim(FirstPart(req.xff))
        ipThrows == Truthy(config.includeIp) /\ (~req.hasHeaders \/ ~req.hasSocket)
        ip   == IF TruthyS(req.remoteAddress) THEN req.remoteAddress
                ELSE IF TruthyS(fwd) THEN fwd
                ELSE <<"unknown">>
        uaThrows == Truthy(config.includeUserAgent) /\ ~req.hasHeaders
        ua   == IF TruthyS(req.ua) THEN req.ua ELSE <<"unknown">>
        withIp == IF Truthy(config.includeIp)
                  THEN Append(base, Field("ip", ip)) ELSE base
        withUa == IF Truthy(config.includeUserAgent)
                  THEN Append(withIp, Field("userAgent", ua)) ELSE withIp
    IN  IF ipThrows \/ uaThrows
        THEN [threw |-> TRUE, entry |-> <<>>,
              error |-> TypeErrorUndefined("remoteAddress")]
        ELSE [threw |-> FALSE, entry |-> withUa, error |-> NoErr]

captureRequestData(req, config, now) ==
    LET base == << Field("timestamp", Timestamp(now)),
                   Field("method", req.method),
                   Field("url", IF TruthyS(req.originalUrl) THEN req.originalUrl
                                                            ELSE req.url) >>
        fwd  == IF req.xff = UndefS THEN UndefS ELSE Trim(FirstPart(req.xff))
        ipThrows == /\ Truthy(config.includeIp)
                    /\ \/ ~req.hasHeaders
                       \/ ~TruthyS(fwd) /\ ~req.hasSocket
        ip   == IF TruthyS(fwd) THEN fwd
                ELSE IF TruthyS(req.remoteAddress) THEN req.remoteAddress
                ELSE <<"unknown">>
        uaThrows == Truthy(config.includeUserAgent) /\ ~req.hasHeaders
        ua   == IF TruthyS(req.ua) THEN req.ua ELSE <<"unknown">>
        withIp == IF Truthy(config.includeIp)
                  THEN Append(base, Field("ip", ip)) ELSE base
        withUa == IF Truthy(config.includeUserAgent)
                  THEN Append(withIp, Field("userAgent", ua)) ELSE withIp
    IN  IF ipThrows
        THEN [threw |-> TRUE, entry |-> <<>>,
              error |-> TypeErrorUndefined(IF ~req.hasHeaders THEN "x-forwarded-for"
                                                              ELSE "remoteAddress")]
        ELSE IF uaThrows
        THEN [threw |-> TRUE, entry |-> <<>>,
              error |-> TypeErrorUndefined("user-agent")]
        ELSE [threw |-> FALSE, entry |-> withUa, error |-> NoErr]

(***************************************************************************)
(* Formatters                                                              *)
(***************************************************************************)
\* logEntry.key, undefined when the key is not in the entry
Get(entry, key) ==
    IF \E i \in 1..Len(entry) : entry[i].k = key
    THEN entry[CHOOSE i \in 1..Len(entry) : entry[i].k = key].v
    ELSE UndefS

\* JSON.stringify escapes the quote and the backslash inside a string
RECURSIVE JsonEscape(_)
JsonEscape(v) ==
    IF v = <<>> THEN <<>>
    ELSE (IF Head(v) \in {"\"", "\\"} THEN <<"\\", Head(v)>> ELSE <<Head(v)>>)
         \o JsonEscape(Tail(v))

\* JSON.stringify leaves out the properties whose value is undefined
RECURSIVE JsonMembers(_)
JsonMembers(entry) ==
    IF entry = <<>> THEN <<>>
    ELSE LET rest == JsonMembers(Tail(entry))
             f    == Head(entry)
         IN  IF f.v = UndefS THEN rest
             ELSE <<"\"", f.k, "\"", ":", "\"">> \o JsonEscape(f.v) \o <<"\"">>
                  \o (IF rest = <<>> THEN <<>> ELSE <<",">> \o rest)

\* JSON.stringify(logEntry, null, 1): pretty-printed
formatAsJsonPretty(logEntry) ==
    <<"{", " ">> \o JsonMembers(logEntry) \o <<" ", "}", "\n">>

formatAsJson(logEntry) == <<"{">> \o JsonMembers(logEntry) \o <<"}", "\n">>

\* the optional fields appended in the other order
formatAsTextSwapped(logEntry) ==
    <<"[">> \o Get(logEntry, "timestamp") \o <<"]", " ">>
    \o Get(logEntry, "method") \o <<" ">> \o Get(logEntry, "url")
    \o (IF TruthyS(Get(logEntry, "userAgent"))
        THEN <<" - ">> \o Get(logEntry, "userAgent") ELSE <<>>)
    \o (IF TruthyS(Get(logEntry, "ip"))
        THEN <<" - ">> \o Get(logEntry, "ip") ELSE <<>>)
    \o <<"\n">>

formatAsText(logEntry) ==
    <<"[">> \o Get(logEntry, "timestamp") \o <<"]", " ">>
    \o Get(logEntry, "method") \o <<" ">> \o Get(logEntry, "url")
    \o (IF TruthyS(Get(logEntry, "ip"))
        THEN <<" - ">> \o Get(logEntry, "ip") ELSE <<>>)
    \o (IF TruthyS(Get(logEntry, "userAgent"))
        THEN <<" - ">> \o Get(logEntry, "userAgent") ELSE <<>>)
    \o <<"\n">>

\* JSON.parse of a line, as the tests read the log back: a string from the
\* position after its opening quote up to its closing quote
ParseFail == [ok |-> FALSE, v |-> <<>>, next |-> 0]
RECURSIVE ParseString(_, _)
ParseString(s, i) ==
    IF i > Len(s) THEN ParseFail
    ELSE IF s[i] = "\"" THEN [ok |-> TRUE, v |-> <<>>, next |-> i + 1]
    ELSE IF s[i] = "\n" THEN ParseFail
    ELSE IF s[i] = "\\"
    THEN IF i + 1 > Len(s) THEN ParseFail
         ELSE LET rest == ParseString(s, i + 2)
              IN  [ok |-> rest.ok, v |-> <<s[i + 1]>> \o rest.v, next |-> rest.next]
    ELSE LET rest == ParseString(s, i + 1)
         IN  [ok |-> rest.ok, v |-> <<s[i]>> \o rest.v, next |-> rest.next]

\* the members of an object from position i, up to and including its "}"
RECURSIVE ParseMembers(_, _)
ParseMembers(s, i) ==
    IF i > Len(s) \/ s[i] # "\"" THEN ParseFail
    ELSE LET key == ParseString(s, i + 1)
         IN  IF ~key.ok \/ Len(key.v) # 1 \/ key.next + 1 > Len(s)
                \/ s[key.next] # ":" \/ s[key.next + 1] # "\""
             THEN ParseFail
             ELSE LET val == ParseString(s, key.next + 2)
                  IN  IF ~val.ok \/ val.next > Len(s) THEN ParseFail
                      ELSE IF s[val.next] = "}"
                      THEN [ok |-> TRUE, v |-> <<Field(key.v[1], val.v)>>,
                            next |-> val.next + 1]
                      ELSE IF s[val.next] = ","
                      THEN LET rest == ParseMembers(s, val.next + 1)
                           IN  [ok |-> rest.ok,
                                v |-> <<Field(key.v[1], val.v)>> \o rest.v,
                                next |-> rest.next]
                      ELSE ParseFail

\* the object a line parses to; the line is the object and one newline
ParseJson(s) ==
    IF Len(s) < 3 \/ s[1] # "{" \/ s[Len(s)] # "\n" THEN ParseFail
    ELSE LET body == IF s[2] = "}" THEN [ok |-> TRUE, v |-> <<>>, next |-> 3]
                     ELSE ParseMembers(s, 2)
         IN  IF body.ok /\ body.next = Len(s) THEN body ELSE ParseFail

\* the text variant for everything that is not 'json'
selectFormatterTextDefault(format, logEntry) ==
    IF format = JsStr(<<"json">>) THEN formatAsJson(logEntry)
                                  ELSE formatAsText(logEntry)

\* selectFormatter(format)(logEntry)
selectFormatter(format, logEntry) ==
    IF format = JsStr(<<"text">>) THEN formatAsText(logEntry)
                                  ELSE formatAsJson(logEntry)

(***************************************************************************)
(* Log writer                                                              *)
(***************************************************************************)
\* path.dirname on a path given as its components
Dirname(p) == IF Len(p) <= 1 THEN <<".">> ELSE SubSeq(p, 1, Len(p) - 1)

\* the path as printed by a template literal
RECURSIVE PathText(_)
PathText(p) ==
    IF p = <<>> THEN <<>>
    ELSE IF Len(p) = 1 THEN p
    ELSE <<Head(p), "/">> \o PathText(Tail(p))

\* mkdir without {recursive: true}
AncestorsLeafOnly(d) == {d}

\* the directory and all its ancestors: what mkdir {recursive: true} creates
Ancestors(d) == {SubSeq(d, 1, n) : n \in 1..Len(d)}

Is(error, code) == error.hasCode /\ error.code = <<code>>

\* the catch block without the EEXIST test
ensureLogDirectoryStrict(logDir, error) ==
    IF Is(error, "EACCES")
    THEN [threw |-> TRUE,
          error |-> ErrNoCode(<<"Permission denied", ": Cannot create log directory at ">>
                              \o PathText(logDir)
                              \o <<". Check file system permissions.">>)]
    ELSE IF Is(error, "ENOSPC")
    THEN [threw |-> TRUE,
          error |-> ErrNoCode(<<"No space left on device", ": Cannot create log directory at ">>
                              \o PathText(logDir) \o <<".">>)]
    ELSE [threw |-> TRUE,
          error |-> ErrNoCode(<<"Failed to create log directory at ">>
                              \o PathText(logDir) \o <<": ">> \o error.message)]

\* catch block of ensureLogDirectory: the error it throws for a rejected mkdir
ensureLogDirectory(logDir, error) ==
    IF Is(error, "EEXIST")
    THEN [threw |-> FALSE, error |-> NoErr]
    ELSE IF Is(error, "EACCES")
    THEN [threw |-> TRUE,
          error |-> ErrNoCode(<<"Permission denied", ": Cannot create log directory at ">>
                              \o PathText(logDir)
                              \o <<". Check file system permissions.">>)]
    ELSE IF Is(error, "ENOSPC")
    THEN [threw |-> TRUE,
          error |-> ErrNoCode(<<"No space left on device", ": Cannot create log directory at ">>
                              \o PathText(logDir) \o <<".">>)]
    ELSE [threw |-> TRUE,
          error |-> ErrNoCode(<<"Failed to create log directory at ">>
                              \o PathText(logDir) \o <<": ">> \o error.message)]

\* the generic branch without the text of the caught error
appendToLogFileNoText(logFilePath, error) ==
    IF Is(error, "ENOENT")
    THEN ErrNoCode(<<"Log file path does not exist: ">> \o logFilePath
                   \o <<". Failed to create directory structure.">>)
    ELSE IF Is(error, "EACCES")
    THEN ErrNoCode(<<"Permission denied", ": Cannot write to log file at ">> \o logFilePath
                   \o <<". Check file system permissions.">>)
    ELSE IF Is(error, "ENOSPC")
    THEN ErrNoCode(<<"No space left on device", ": Cannot write to log file at ">>
                   \o logFilePath \o <<".">>)
    ELSE ErrNoCode(<<"Failed to write to log file at ">> \o logFilePath)

\* catch block of appendToLogFile: the error it throws for a caught error
appendToLogFile(logFilePath, error) ==
    IF Is(error, "ENOENT")
    THEN ErrNoCode(<<"Log file path does not exist: ">> \o logFilePath
                   \o <<". Failed to create directory structure.">>)
    ELSE IF Is(error, "EACCES")
    THEN ErrNoCode(<<"Permission denied", ": Cannot write to log file at ">> \o logFilePath
                   \o <<". Check file system permissions.">>)
    ELSE IF Is(error, "ENOSPC")
    THEN ErrNoCode(<<"No space left on device", ": Cannot write to log file at ">>
                   \o logFilePath \o <<".">>)
    ELSE ErrNoCode(<<"Failed to write to log file at ">> \o logFilePath \o <<": ">>
                   \o (IF error.message # <<>> THEN error.message
                       ELSE <<"Error">>))

\* catch block of the middleware: the console.error line
ErrorReport(rq, error) ==
    <<"[Request Logger] Failed to log request ">> \o rq.method \o <<" ">> \o rq.url
    \o <<": ">> \o error.message \o <<" (Error code: ">>
    \o (IF error.hasCode THEN error.code ELSE <<"UNKNOWN">>) \o <<")">>

(***************************************************************************)
(* State                                                                   *)
(***************************************************************************)
VARIABLES
    userConfig,    \* the object passed to createRequestLogger
    finalConfig,   \* the resolved configuration captured by the closure
    warnings,      \* console.warn lines
    defaults,      \* the content of the shared DEFAULT_CONFIG object
    others,        \* the middleware instances constructed later, in order
    pc,            \* per request: "idle", "mkdir", "append", "done"
    req,           \* per request: the request object
    captured,      \* per request: logEntry
    line,          \* per request: formattedEntry
    calls,         \* per request: the steps it has performed so far
    fault,         \* per request: the failure its logging attempt met
    doneBefore,    \* per request: the requests already continued when it entered
    nextArgs,      \* per request: one element per invocation of next()
    promise,       \* per request: state of the promise the middleware returned
    consoleError,  \* per request: console.error lines emitted while handling it
    events,        \* per request: its console.error and next() calls, in order
    aborted,       \* per request: whether the client has aborted it
    dirs0,         \* file system: the directories that existed at construction
    dirs,          \* file system: the directories that exist
    fileExists,    \* file system: whether the log file exists
    file,          \* file system: the lines of the log file, with their writer
    clock          \* wall clock read by new Date()

vars == <<userConfig, finalConfig, warnings, defaults, others, pc, req, captured, line, calls,
          fault,
          doneBefore, nextArgs, promise, consoleError, events, aborted,
          dirs0, dirs, fileExists, file, clock>>

fsVars  == <<dirs0, dirs, fileExists, file>>
cfgVars == <<userConfig, finalConfig, warnings, defaults, others>>

Requests == DOMAIN pc

NoFault == [stage |-> "none", err |-> NoErr]
Fault(stage, error) == [stage |-> stage, err |-> error]

NoReq ==
    [method |-> UndefS, url |-> UndefS, originalUrl |-> UndefS,
     hasHeaders |-> FALSE, xff |-> UndefS, ua |-> UndefS,
     hasSocket |-> FALSE, remoteAddress |-> UndefS]

Root == {<<".">>}

\* the state right after createRequestLogger(uc) returned, for n requests to come
InitWith(n, configs) ==
    /\ userConfig \in configs
    /\ finalConfig = validateAndMergeConfig(userConfig)
    /\ warnings = ConfigWarnings(userConfig)
    /\ defaults = DEFAULT_CONFIG
    /\ others = <<>>
    /\ pc = [r \in 1..n |-> "idle"]
    /\ req = [r \in 1..n |-> NoReq]
    /\ captured = [r \in 1..n |-> <<>>]
    /\ line = [r \in 1..n |-> <<>>]
    /\ calls = [r \in 1..n |-> <<>>]
    /\ fault = [r \in 1..n |-> NoFault]
    /\ doneBefore = [r \in 1..n |-> {}]
    /\ nextArgs = [r \in 1..n |-> <<>>]
    /\ promise = [r \in 1..n |-> "none"]
    /\ consoleError = [r \in 1..n |-> <<>>]
    /\ events = [r \in 1..n |-> <<>>]
    /\ aborted = [r \in 1..n |-> FALSE]
    /\ dirs0 \in {Root} \cup
                 (IF finalConfig.logFilePath.t = "string"
                  THEN {Root \cup Ancestors(Dirname(finalConfig.logFilePath.v))}
                  ELSE {})
    /\ dirs = dirs0
    /\ fileExists = FALSE
    /\ file = <<>>
    /\ clock = 0

(***************************************************************************)
(* The middleware: async (req, res, next) => { try .. catch .. finally }   *)
(***************************************************************************)
\* next() at the end of the try block instead of in finally
ContinueInTry(r, reports) ==
    /\ consoleError' = [consoleError EXCEPT ![r] = @ \o reports]
    /\ events' = [events EXCEPT ![r] =
                     @ \o (IF reports = <<>> THEN <<"next">> ELSE <<"report">>)]
    /\ nextArgs' = [nextArgs EXCEPT ![r] =
                       IF reports = <<>> THEN Append(@, "noarg") ELSE @]
    /\ promise' = [promise EXCEPT ![r] = "fulfilled"]
    /\ pc' = [pc EXCEPT ![r] = "done"]

\* a catch block that swallows the error without reporting it
ContinueSilent(r, reports) ==
    /\ consoleError' = consoleError
    /\ events' = [events EXCEPT ![r] = Append(@, "next")]
    /\ nextArgs' = [nextArgs EXCEPT ![r] = Append(@, "noarg")]
    /\ promise' = [promise EXCEPT ![r] = "fulfilled"]
    /\ pc' = [pc EXCEPT ![r] = "done"]

\* a catch block that hands the error to the pipeline: next(error)
ContinueWithError(r, reports) ==
    /\ consoleError' = [consoleError EXCEPT ![r] = @ \o reports]
    /\ events' = [events EXCEPT ![r] =
                     @ \o (IF reports = <<>> THEN <<>> ELSE <<"report">>) \o <<"next">>]
    /\ nextArgs' = [nextArgs EXCEPT ![r] =
                       Append(@, IF reports = <<>> THEN "noarg" ELSE "error")]
    /\ promise' = [promise EXCEPT ![r] = "fulfilled"]
    /\ pc' = [pc EXCEPT ![r] = "done"]

\* catch (when reports is not empty) and finally: the reports go to
\* console.error, next() is invoked and the async function returns
Continue(r, reports) ==
    /\ consoleError' = [consoleError EXCEPT ![r] = @ \o reports]
    /\ events' = [events EXCEPT ![r] =
                     @ \o (IF reports = <<>> THEN <<>> ELSE <<"report">>) \o <<"next">>]
    /\ nextArgs' = [nextArgs EXCEPT ![r] = Append(@, "noarg")]
    /\ promise' = [promise EXCEPT ![r] = "fulfilled"]
    /\ pc' = [pc EXCEPT ![r] = "done"]

\* the enabled test left out
LoggingEnabledAlways(config) == TRUE

\* a circuit breaker: logging stops once a request has met a failure
LoggingEnabledUntilFailure(config) ==
    Truthy(config.enabled) /\ \A q \in DOMAIN fault : fault[q].stage = "none"

\* only the value false disables: if (finalConfig.enabled === false) return;
LoggingEnabledUnlessFalse(config) == config.enabled # JsFalse

\* if (!finalConfig.enabled) return;
LoggingEnabled(config) == Truthy(config.enabled)

\* the write dispatched without await: finally runs next() right away
DispatchNoAwait(r) ==
    /\ pc' = [pc EXCEPT ![r] = "mkdir"]
    /\ promise' = [promise EXCEPT ![r] = "fulfilled"]
    /\ nextArgs' = [nextArgs EXCEPT ![r] = Append(@, "noarg")]
    /\ events' = [events EXCEPT ![r] = Append(@, "next")]
    /\ UNCHANGED consoleError

\* await appendToLogFile(..): the handler is suspended on the write, and
\* neither its catch nor its finally block has run
Dispatch(r) ==
    /\ pc' = [pc EXCEPT ![r] = "mkdir"]
    /\ promise' = [promise EXCEPT ![r] = "pending"]
    /\ UNCHANGED <<nextArgs, consoleError, events>>

\* a request has been continued once next() was invoked for it
Continued(q) == nextArgs[q] # <<>>

\* the error path.dirname throws for a path that is not a string
DirnameError(path) ==
    Err(<<"The \"path\" argument must be of type string. Received ">> \o ToText(path),
        <<"ERR_INVALID_ARG_TYPE">>)

\* The synchronous prefix of the handler, up to the first await that
\* suspends: the enabled test, capture, format and the mkdir request.
Enter(r, reqs) ==
    /\ pc[r] = "idle"
    /\ \E rq \in reqs, tick \in 0..1 :
        LET now  == clock + tick
            cap  == captureRequestData(rq, finalConfig, now)
            path == finalConfig.logFilePath
        IN  /\ clock' = now
            /\ req' = [req EXCEPT ![r] = rq]
            /\ doneBefore' = [doneBefore EXCEPT ![r] = {q \in Requests : Continued(q)}]
            /\ IF ~LoggingEnabled(finalConfig)
               THEN /\ Continue(r, <<>>)
                    /\ UNCHANGED <<captured, line, calls, fault>>
               ELSE IF cap.threw
               THEN /\ Continue(r, <<ErrorReport(rq, cap.error)>>)
                    /\ calls' = [calls EXCEPT ![r] = <<"capture">>]
                    /\ fault' = [fault EXCEPT ![r] = Fault("capture", cap.error)]
                    /\ UNCHANGED <<captured, line>>
               ELSE IF path.t # "string"
               THEN /\ Continue(r, <<ErrorReport(rq,
                           appendToLogFile(ToText(path), DirnameError(path)))>>)
                    /\ calls' = [calls EXCEPT ![r] = <<"capture", "format">>]
                    /\ captured' = [captured EXCEPT ![r] = cap.entry]
                    /\ line' = [line EXCEPT ![r] =
                                   selectFormatter(finalConfig.format, cap.entry)]
                    /\ fault' = [fault EXCEPT ![r] = Fault("dirname", DirnameError(path))]
               ELSE /\ Dispatch(r)
                    /\ calls' = [calls EXCEPT ![r] = <<"capture", "format", "mkdir">>]
                    /\ captured' = [captured EXCEPT ![r] = cap.entry]
                    /\ line' = [line EXCEPT ![r] =
                                   selectFormatter(finalConfig.format, cap.entry)]
                    /\ UNCHANGED fault
    /\ UNCHANGED <<fsVars, cfgVars, aborted>>

\* the directory remembered as created once a request has been logged, and
\* mkdir not issued again
MkdirCached(existing, logDir) ==
    IF \E q \in DOMAIN pc : pc[q] = "done" /\ calls[q] # <<>> /\ fault[q] = NoFault
    THEN existing
    ELSE existing \cup Ancestors(logDir)

\* the directories after a mkdir {recursive: true} that resolved
Mkdir(existing, logDir) == existing \cup Ancestors(logDir)

\* fs.promises.mkdir(logDir, {recursive: true}) settles: it resolves, having
\* created the directory and its ancestors, or rejects with one of errors.
MkdirSettle(r, errors) ==
    /\ pc[r] = "mkdir"
    /\ LET path   == finalConfig.logFilePath.v
           logDir == Dirname(path)
       IN  \/ /\ dirs' = Mkdir(dirs, logDir)
              /\ pc' = [pc EXCEPT ![r] = "append"]
              /\ calls' = [calls EXCEPT ![r] = Append(@, "appendFile")]
              /\ UNCHANGED <<fault, nextArgs, promise, consoleError, events>>
           \/ \E error \in errors :
                LET ens == ensureLogDirectory(logDir, error)
                IN  /\ fault' = [fault EXCEPT ![r] = Fault("mkdir", error)]
                    /\ dirs' = dirs
                    /\ IF ens.threw
                       THEN /\ Continue(r, <<ErrorReport(req[r],
                                   appendToLogFile(PathText(path), ens.error))>>)
                            /\ UNCHANGED calls
                       ELSE /\ pc' = [pc EXCEPT ![r] = "append"]
                            /\ calls' = [calls EXCEPT ![r] = Append(@, "appendFile")]
                            /\ UNCHANGED <<nextArgs, promise, consoleError, events>>
    /\ UNCHANGED <<dirs0, fileExists, file, cfgVars, req, captured, line, doneBefore,
                   clock, aborted>>

\* writeFile in place of appendFile: the entry replaces the content
WriteFile(content, entry) == <<entry>>

\* a write queue keyed by a sequencing token: entries kept in request order
InsertInOrder(content, entry) ==
    LET before == SelectSeq(content, LAMBDA e : e.by <= entry.by)
        after  == SelectSeq(content, LAMBDA e : e.by > entry.by)
    IN  before \o <<entry>> \o after

\* fs.promises.appendFile: the entry goes, whole, after the existing content
AppendFile(content, entry) == Append(content, entry)

\* the error of an append into a directory that does not exist
NoSuchDirectory == Err(<<"ENOENT: no such file or directory, open">>, <<"ENOENT">>)

\* fs.promises.appendFile(logFilePath, formattedEntry, 'utf8') settles: it
\* resolves, having appended the whole entry, or rejects with one of errors.
AppendSettle(r, errors) ==
    /\ pc[r] = "append"
    /\ LET path == finalConfig.logFilePath.v
       IN  \/ /\ Dirname(path) \in dirs
              /\ file' = AppendFile(file, [by |-> r, line |-> line[r]])
              /\ fileExists' = TRUE
              /\ Continue(r, <<>>)
              /\ UNCHANGED fault
           \/ \E error \in errors \cup
                           (IF Dirname(path) \in dirs THEN {} ELSE {NoSuchDirectory}) :
                /\ fault' = [fault EXCEPT ![r] = Fault("append", error)]
                /\ Continue(r, <<ErrorReport(req[r],
                                   appendToLogFile(PathText(path), error))>>)
                /\ UNCHANGED <<file, fileExists>>
    /\ UNCHANGED <<dirs0, dirs, cfgVars, req, captured, line, calls, doneBefore,
                   clock, aborted>>

\* The client aborts a request whose write is in flight.  The handler
\* registers no listener on the request, so nothing of it changes.
Abort(r) ==
    /\ pc[r] \in {"mkdir", "append"}
    /\ ~aborted[r]
    /\ aborted' = [aborted EXCEPT ![r] = TRUE]
    /\ UNCHANGED <<cfgVars, fsVars, pc, req, captured, line, calls,
          fault, doneBefore,
                   nextArgs, promise, consoleError, events, clock>>

\* createRequestLogger(config) is called again, for another instance: its
\* warnings are emitted, and the shared defaults and the caller's object
\* are left as the call leaves them.
Construct(configs) ==
    /\ Len(others) < MaxInstances
    /\ \E config \in configs :
          LET made == createRequestLogger(defaults, config)
          IN  /\ others' = Append(others, [given |-> config, config |-> made.config,
                                           finalConfig |-> made.finalConfig])
              /\ defaults' = made.shared
              /\ warnings' = warnings \o ConfigWarnings(config)
    /\ UNCHANGED <<userConfig, finalConfig, fsVars, pc, req, captured, line, calls,
                   fault, doneBefore, nextArgs, promise, consoleError, events,
                   aborted, clock>>

\* no write of the instance is in flight
Quiet == \A r \in Requests : pc[r] \in {"idle", "done"}

\* Something outside the process removes the log directory with the file
\* in it, between two requests.
RemoveDirectory ==
    /\ Quiet
    /\ finalConfig.logFilePath.t = "string"
    /\ Dirname(finalConfig.logFilePath.v) \in dirs \ Root
    /\ dirs' = dirs \ {Dirname(finalConfig.logFilePath.v)}
    /\ file' = <<>>
    /\ fileExists' = FALSE
    /\ UNCHANGED <<cfgVars, dirs0, pc, req, captured, line, calls, fault, doneBefore,
                   nextArgs, promise, consoleError, events, aborted, clock>>

\* Something outside the process removes the log file, between two requests.
RemoveFile ==
    /\ Quiet
    /\ fileExists
    /\ file' = <<>>
    /\ fileExists' = FALSE
    /\ UNCHANGED <<cfgVars, dirs0, dirs, pc, req, captured, line, calls, fault,
                   doneBefore, nextArgs, promise, consoleError, events, aborted,
                   clock>>

(***************************************************************************)
(* Inputs                                                                  *)
(***************************************************************************)
NoConfig == [k \in ConfigKeys |-> JsAbsent]

TestLogFile == JsStr(<<".", "test-logs", "nested", "test.log">>)

\* configurations of the request-handling specifications
UserConfigs ==
    { NoConfig,
      [NoConfig EXCEPT !.logFilePath = TestLogFile, !.format = JsStr(<<"text">>),
                       !.includeIp = JsTrue, !.includeUserAgent = JsTrue],
      [NoConfig EXCEPT !.logFilePath = TestLogFile, !.enabled = JsFalse],
      [NoConfig EXCEPT !.logFilePath = JsNull] }

\* a request through a mounted router, behind a proxy
ProxiedReq ==
    [method |-> <<"POST">>, url |-> <<"/books">>, originalUrl |-> <<"/api/books">>,
     hasHeaders |-> TRUE, xff |-> <<" ", "10.0.0.1", " ", ",", "10.0.0.2">>,
     ua |-> UndefS, hasSocket |-> TRUE, remoteAddress |-> <<"::1">>]

\* a direct request
DirectReq ==
    [method |-> <<"GET">>, url |-> <<"/test">>, originalUrl |-> <<"/test">>,
     hasHeaders |-> TRUE, xff |-> UndefS, ua |-> <<"TestAgent/1.0">>,
     hasSocket |-> TRUE, remoteAddress |-> <<"::1">>]

\* a request object with no socket and no headers
BareReq ==
    [method |-> <<"GET">>, url |-> <<"/bare">>, originalUrl |-> UndefS,
     hasHeaders |-> FALSE, xff |-> UndefS, ua |-> UndefS,
     hasSocket |-> FALSE, remoteAddress |-> UndefS]

\* a request whose user-agent has a quote and a backslash in it
QuotedReq ==
    [method |-> <<"PUT">>, url |-> <<"/api/books/1">>, originalUrl |-> <<"/api/books/1">>,
     hasHeaders |-> TRUE, xff |-> UndefS, ua |-> <<"curl ", "\"", "7", "\\", "68">>,
     hasSocket |-> TRUE, remoteAddress |-> UndefS]

\* requests of Spec, and of SpecFault
Reqs == {ProxiedReq, DirectReq}
AllReqs == Reqs \cup {BareReq}

FsCodes == {"ENOENT", "EACCES", "ENOSPC", "EIO"}
FsMessages == {<<"Simulated error">>, <<"Permission denied">>,
               <<"No space left on device">>}

\* rejections of mkdir and appendFile in Spec
MkdirErrors  == {Err(<<"Permission denied">>, <<"EACCES">>)}
AppendErrors == {ErrNoCode(<<"Simulated error">>)}

\* rejections of mkdir and appendFile in SpecFault
AllFsErrors == {Err(m, <<c>>) : m \in FsMessages, c \in FsCodes}
                 \cup {ErrNoCode(m) : m \in FsMessages \cup {<<>>}}
AllMkdirErrors == AllFsErrors \cup {Err(<<"file already exists">>, <<"EEXIST">>)}

(***************************************************************************)
(* Specifications                                                          *)
(***************************************************************************)
Init == InitWith(MaxReq, UserConfigs)

Next ==
    \E r \in Requests :
        \/ Enter(r, Reqs)
        \/ MkdirSettle(r, MkdirErrors)
        \/ AppendSettle(r, AppendErrors)

Spec == Init /\ [][Next]_vars

\* one middleware instance against every file system failure
InitFault == InitWith(MaxFaultReq, UserConfigs)

NextFault ==
    \E r \in Requests :
        \/ Enter(r, AllReqs)
        \/ MkdirSettle(r, AllMkdirErrors)
        \/ AppendSettle(r, AllFsErrors)

SpecFault == InitFault /\ [][NextFault]_vars

\* Configurations of SpecConfig: every kind of value for format and
\* logFilePath together, for enabled, and the two formats with every
\* choice of the optional fields.
FormatValues ==
    {JsAbsent, JsUndefined, JsNull, JsFalse, JsNum("0"), JsStr(<<>>), JsObj,
     JsStr(<<"bogus">>), JsStr(<<"json">>), JsStr(<<"text">>)}
PathValues ==
    {JsAbsent, JsUndefined, JsNull, JsFalse, JsNum("0"), JsNum("123"), JsObj,
     TestLogFile}
FlagValues ==
    {JsAbsent, JsUndefined, JsNull, JsFalse, JsTrue, JsNum("0"), JsNum("1"),
     JsStr(<<>>)}

AllUserConfigs ==
    {[NoConfig EXCEPT !.format = f, !.logFilePath = p] :
        f \in FormatValues, p \in PathValues}
    \cup {[NoConfig EXCEPT !.enabled = e] : e \in FlagValues}
    \cup {[NoConfig EXCEPT !.format = f, !.includeIp = i, !.includeUserAgent = u] :
            f \in {JsStr(<<"json">>), JsStr(<<"text">>)},
            i \in {JsTrue, JsFalse}, u \in {JsTrue, JsFalse}}

\* one middleware instance for every configuration, the file system sound
InitConfig == InitWith(MaxConfigReq, AllUserConfigs)

NextConfig ==
    \E r \in Requests :
        \/ Enter(r, {ProxiedReq, QuotedReq})
        \/ MkdirSettle(r, {})
        \/ AppendSettle(r, {})

SpecConfig == InitConfig /\ [][NextConfig]_vars

\* Requests that may be aborted while their write is in flight; every file
\* system operation settles and every request that arrives is handled.
InitLive == InitWith(MaxLiveReq, {NoConfig})

NextLive ==
    \E r \in Requests :
        \/ Enter(r, {DirectReq})
        \/ MkdirSettle(r, MkdirErrors)
        \/ AppendSettle(r, AppendErrors)
        \/ Abort(r)

SpecLive ==
    /\ InitLive
    /\ [][NextLive]_vars
    /\ \A r \in 1..MaxLiveReq :
          /\ WF_vars(MkdirSettle(r, MkdirErrors))
          /\ WF_vars(AppendSettle(r, AppendErrors))

\* configurations of the instances of SpecInstances
InstanceConfigs ==
    { NoConfig,
      [NoConfig EXCEPT !.format = JsStr(<<"bogus">>)],
      [NoConfig EXCEPT !.logFilePath = JsNum("123")],
      [NoConfig EXCEPT !.format = JsStr(<<"text">>), !.includeIp = JsTrue,
                       !.logFilePath = TestLogFile] }

\* several middleware instances constructed in one process, one of them
\* serving requests
InitInstances == InitWith(MaxInstanceReq, InstanceConfigs)

NextInstances ==
    \/ Construct(InstanceConfigs)
    \/ \E r \in Requests :
          \/ Enter(r, {DirectReq})
          \/ MkdirSettle(r, {})
          \/ AppendSettle(r, AppendErrors)

SpecInstances == InitInstances /\ [][NextInstances]_vars

\* Requests of SpecCapture: every shape of the forwarded-for header (absent,
\* empty, first entry blank, a padded list, free text) with every shape of
\* the socket (missing, without a remote address, with one), and a request
\* with neither headers nor socket.
XffValues ==
    {UndefS, <<>>, <<" ", ",", "10.0.0.2">>,
     <<" ", "10.0.0.1", " ", ",", "10.0.0.2">>, <<"not an ip">>}
SocketValues ==
    {[has |-> FALSE, addr |-> UndefS], [has |-> TRUE, addr |-> UndefS],
     [has |-> TRUE, addr |-> <<"::1">>]}
CaptureReqs ==
    {[DirectReq EXCEPT !.xff = x, !.hasSocket = k.has, !.remoteAddress = k.addr] :
        x \in XffValues, k \in SocketValues}
    \cup {BareReq}

\* every choice of the optional fields
CaptureConfigs ==
    {[NoConfig EXCEPT !.includeIp = i, !.includeUserAgent = u] :
        i \in {JsTrue, JsFalse}, u \in {JsTrue, JsFalse}}

InitCapture == InitWith(MaxCaptureReq, CaptureConfigs)

NextCapture ==
    \E r \in Requests :
        \/ Enter(r, CaptureReqs)
        \/ MkdirSettle(r, {})
        \/ AppendSettle(r, {})

SpecCapture == InitCapture /\ [][NextCapture]_vars

\* the log directory or the log file removed from outside between requests,
\* every file system operation of the instance succeeding
RemovalConfigs == {NoConfig, [NoConfig EXCEPT !.logFilePath = TestLogFile]}

InitRemoval == InitWith(MaxRemovalReq, RemovalConfigs)

NextRemoval ==
    \/ RemoveDirectory
    \/ RemoveFile
    \/ \E r \in Requests :
          \/ Enter(r, {DirectReq})
          \/ MkdirSettle(r, {})
          \/ AppendSettle(r, {})

SpecRemoval == InitRemoval /\ [][NextRemoval]_vars

(***************************************************************************)
(* Properties                                                              *)
(***************************************************************************)
Done(r) == pc[r] = "done"

\* the logging attempt of r failed: it met a failure other than a mkdir
\* rejection with EEXIST, which the writer takes for success
Failed(r) ==
    /\ fault[r].stage # "none"
    /\ ~(fault[r].stage = "mkdir" /\ Is(fault[r].err, "EEXIST"))

\* the failure was in the writer: directory creation or append
WriterFailed(r) == Failed(r) /\ fault[r].stage \in {"mkdir", "append"}

ReportPrefix == <<"[Request Logger] Failed to log request ">>

\* C1: next() has been invoked exactly once for every request whose handling
\* has finished, whatever path it took (disabled, written, capture threw,
\* mkdir failed, append failed), and never more than once for any request.
C1_NextExactlyOnce ==
    \A r \in Requests :
        /\ Len(nextArgs[r]) <= 1
        /\ Done(r) => Len(nextArgs[r]) = 1

\* a request whose capture threw has finished and was continued
C1_Witness ==
    \E r \in Requests :
        Done(r) /\ fault[r].stage = "capture" /\ Len(nextArgs[r]) = 1

\* C2: a finished request whose logging attempt failed was continued and has
\* exactly one error report, which starts with "[Request Logger] Failed to
\* log request"; a finished request that was logged or skipped has none; so
\* the reports are as many as the failed requests.
C2_OneReportPerFailure ==
    /\ \A r \in Requests :
          /\ Done(r) /\ Failed(r) =>
                /\ Len(consoleError[r]) = 1
                /\ Contains(consoleError[r][1], ReportPrefix)
                /\ nextArgs[r] # <<>>
          /\ ~Failed(r) => consoleError[r] = <<>>
    /\ Cardinality({r \in Requests : consoleError[r] # <<>>})
          = Cardinality({r \in Requests : Done(r) /\ Failed(r)})

\* one request failed in the writer and another was logged
C2_Witness ==
    \E a, b \in Requests :
        /\ Done(a) /\ WriterFailed(a) /\ Len(consoleError[a]) = 1
        /\ Done(b) /\ ~Failed(b) /\ \E i \in DOMAIN file : file[i].by = b

\* C3: next() is only ever invoked without an argument and the promise the
\* middleware returned never rejects, whatever failed while logging.
C3_FailureNotSurfaced ==
    \A r \in Requests :
        /\ \A i \in DOMAIN nextArgs[r] : nextArgs[r][i] = "noarg"
        /\ promise[r] # "rejected"
        /\ Done(r) => promise[r] = "fulfilled"

\* a request whose append failed was continued without an error
C3_Witness ==
    \E r \in Requests :
        /\ Done(r) /\ fault[r].stage = "append"
        /\ nextArgs[r] = <<"noarg">> /\ promise[r] = "fulfilled"

\* C4: with enabled = false no request captures, formats, creates a directory
\* or appends: the file system stays as it was at construction, nothing is
\* reported, and a finished request was continued exactly once.
C4_DisabledDoesNothing ==
    finalConfig.enabled = JsFalse =>
        /\ dirs = dirs0 /\ ~fileExists /\ file = <<>>
        /\ \A r \in Requests :
              /\ calls[r] = <<>> /\ line[r] = <<>> /\ consoleError[r] = <<>>
              /\ pc[r] \in {"idle", "done"}
              /\ Done(r) => Len(nextArgs[r]) = 1

\* logging is disabled, the directory is missing and a request has finished
C4_Witness ==
    /\ finalConfig.enabled = JsFalse
    /\ Dirname(finalConfig.logFilePath.v) \notin dirs
    /\ \E r \in Requests : Done(r) /\ Len(nextArgs[r]) = 1

\* the log file path of an instance whose path is a string
LogPath == finalConfig.logFilePath.v

\* positions of the lines request r wrote
LinesOf(r) == {i \in DOMAIN file : file[i].by = r}

\* every request finished and none met a failure
AllLogged == \A r \in Requests : Done(r) /\ fault[r] = NoFault

\* C5: an enabled request is continued without waiting for its write:
\* while its mkdir or its append is in flight, next() has been invoked.
C5_NextBeforeWriteSettles ==
    \A r \in Requests : pc[r] \in {"mkdir", "append"} => Len(nextArgs[r]) = 1

\* C6: when all requests are in flight together and every file system
\* operation succeeds, then once all have settled the file has one line per
\* request, each the whole formatted entry of its request, whatever the
\* order of the mkdir and append steps.
C6_ConcurrentAppendComplete ==
    (/\ LoggingEnabled(finalConfig)
     /\ AllLogged
     /\ \A r \in Requests : doneBefore[r] = {})
    => /\ Len(file) = Cardinality(Requests)
       /\ \A r \in Requests :
             /\ Cardinality(LinesOf(r)) = 1
             /\ \A i \in LinesOf(r) :
                   file[i].line = line[r] /\ line[r][Len(line[r])] = "\n"

\* all requests were in flight together and all are logged
C6_Witness ==
    /\ LoggingEnabled(finalConfig) /\ AllLogged
    /\ Cardinality(Requests) >= 2
    /\ \A r \in Requests : doneBefore[r] = {}
    /\ Len(file) = Cardinality(Requests)

\* every two requests were issued one after the other
Sequential ==
    \A a, b \in Requests : a # b => a \in doneBefore[b] \/ b \in doneBefore[a]

\* C7: if B entered the middleware after A was continued and both are in the
\* file, A's line is before B's; and requests issued strictly one after
\* another, all logged, leave as many lines as requests.
C7_SequentialOrder ==
    /\ \A a, b \in Requests : \A i \in LinesOf(a), j \in LinesOf(b) :
          a \in doneBefore[b] => i < j
    /\ LoggingEnabled(finalConfig) /\ AllLogged /\ Sequential
          => Len(file) = Cardinality(Requests)

\* B entered after A was continued and both lines are in the file
C7_Witness ==
    \E a, b \in Requests :
        /\ a \in doneBefore[b]
        /\ \E i \in LinesOf(a), j \in LinesOf(b) : i < j
        /\ AllLogged /\ Sequential

\* C8: when the parent directory of the log file did not exist and nothing
\* failed, then after exactly one request the directory and its ancestors
\* exist and the file exists with exactly one line, that request's.
C8_DirectoryAutoCreated ==
    \A r \in Requests :
        (/\ Done(r) /\ fault[r] = NoFault /\ LoggingEnabled(finalConfig)
         /\ \A q \in Requests \ {r} : pc[q] = "idle"
         /\ Dirname(LogPath) \notin dirs0)
        => /\ \A n \in 1..Len(Dirname(LogPath)) :
                 SubSeq(Dirname(LogPath), 1, n) \in dirs
           /\ fileExists
           /\ Len(file) = 1 /\ file[1].line = line[r]

\* one request was logged into a directory two levels below an existing one
C8_Witness ==
    \E r \in Requests :
        /\ Done(r) /\ fault[r] = NoFault /\ LoggingEnabled(finalConfig)
        /\ \A q \in Requests \ {r} : pc[q] = "idle"
        /\ Dirname(LogPath) \notin dirs0
        /\ Dirname(Dirname(LogPath)) \notin dirs0
        /\ Dirname(LogPath) \in dirs /\ Len(file) = 1

\* the only error report of a finished request
Report(r) == consoleError[r][1]

\* C9: when the append of a request failed with an error that has a code,
\* the error report of the request contains that code.
C9_ReportCarriesCode ==
    \A r \in Requests :
        Done(r) /\ fault[r].stage = "append" /\ fault[r].err.hasCode
        => Len(consoleError[r]) = 1 /\ Contains(Report(r), fault[r].err.code)

\* the writer classifies the failure of r as generic: its code is none of
\* those given a message of their own at the stage that failed
Generic(r) ==
    LET e == fault[r].err
    IN  \/ /\ fault[r].stage = "append"
           /\ ~Is(e, "ENOENT") /\ ~Is(e, "EACCES") /\ ~Is(e, "ENOSPC")
        \/ /\ fault[r].stage = "mkdir"
           /\ ~Is(e, "EACCES") /\ ~Is(e, "ENOSPC")

WarningsWith(text) == {i \in DOMAIN warnings : Contains(warnings[i], <<text>>)}

Json == JsStr(<<"json">>)
Text == JsStr(<<"text">>)

\* C11: a configured format that is neither 'json' nor 'text', of whatever
\* type, resolves to json with exactly one "Invalid log format" warning.
C11_InvalidFormatFallsBack ==
    userConfig.format \notin {JsAbsent, JsUndefined, Json, Text}
    => /\ finalConfig.format = Json
       /\ Cardinality(WarningsWith("Invalid log format")) = 1

\* C12: a configured logFilePath that is not a string resolves to the
\* default path with exactly one "Invalid logFilePath" warning, and the
\* requests handled afterwards are logged without error.
C12_InvalidPathFallsBack ==
    userConfig.logFilePath.t \notin {"absent", "undefined", "string"}
    => /\ finalConfig.logFilePath = DEFAULT_CONFIG.logFilePath
       /\ Cardinality(WarningsWith("Invalid logFilePath")) = 1
       /\ \A r \in Requests : consoleError[r] = <<>> /\ ~Failed(r)

\* C13: whatever the user configuration, the resolved logFilePath is a
\* string, the resolved format is 'json' or 'text', and enabled, includeIp
\* and includeUserAgent are defined.
C13_ResolvedFullyPopulated ==
    /\ finalConfig.logFilePath.t = "string"
    /\ finalConfig.format \in {Json, Text}
    /\ \A k \in {"enabled", "includeIp", "includeUserAgent"} :
          finalConfig[k].t \notin {"absent", "undefined"}

\* a field of the user configuration is present and valid: the path a
\* string, the format one of the two, the flags as given
PresentAndValid(config, k) ==
    /\ config[k] # JsAbsent
    /\ k = "logFilePath" => config[k].t = "string"
    /\ k = "format" => config[k] \in {Json, Text}

\* C14: the resolved configuration is the defaults with every present and
\* valid field of the user configuration in place of its default; with no
\* configuration it is the defaults.
C14_DefaultsWithValidOverrides ==
    /\ finalConfig = [k \in ConfigKeys |->
                         IF PresentAndValid(userConfig, k) THEN userConfig[k]
                                                           ELSE DEFAULT_CONFIG[k]]
    /\ userConfig = NoConfig => finalConfig = DEFAULT_CONFIG

\* the keys of an object, in order
Keys(fields) == [i \in DOMAIN fields |-> fields[i].k]

\* the keys a line has under the resolved configuration
ExpectedKeys ==
    <<"timestamp", "method", "url">>
    \o (IF finalConfig.includeIp = JsTrue THEN <<"ip">> ELSE <<>>)
    \o (IF finalConfig.includeUserAgent = JsTrue THEN <<"userAgent">> ELSE <<>>)

Newlines(s) == {i \in DOMAIN s : s[i] = "\n"}

\* C15: in JSON mode the line is one compact JSON object and one newline;
\* its keys are timestamp, method, url, then ip iff includeIp, then
\* userAgent iff includeUserAgent, and it parses back to the captured values.
C15_JsonLine ==
    \A r \in Requests :
        line[r] # <<>> /\ finalConfig.format = Json
        => LET parsed == ParseJson(line[r])
           IN  /\ parsed.ok
               /\ Keys(parsed.v) = ExpectedKeys
               /\ parsed.v = captured[r]
               /\ Get(parsed.v, "method") = req[r].method
               /\ Get(parsed.v, "url") = req[r].originalUrl
               /\ Newlines(line[r]) = {Len(line[r])}

\* a JSON line with a quoted user-agent and no ip has been formatted
C15_Witness ==
    \E r \in Requests :
        /\ line[r] # <<>> /\ finalConfig.format = Json
        /\ req[r] = QuotedReq
        /\ Keys(ParseJson(line[r]).v) = <<"timestamp", "method", "url", "userAgent">>

\* C16: in text mode the line is "[timestamp] method url", then " - ip" iff
\* includeIp, then " - userAgent" iff includeUserAgent, then one newline.
C16_TextLine ==
    \A r \in Requests :
        line[r] # <<>> /\ finalConfig.format = Text
        => /\ Keys(captured[r]) = ExpectedKeys
           /\ line[r] =
                <<"[">> \o Get(captured[r], "timestamp") \o <<"]", " ">>
                \o req[r].method \o <<" ">> \o req[r].originalUrl
                \o (IF finalConfig.includeIp = JsTrue
                    THEN <<" - ">> \o Get(captured[r], "ip") ELSE <<>>)
                \o (IF finalConfig.includeUserAgent = JsTrue
                    THEN <<" - ">> \o Get(captured[r], "userAgent") ELSE <<>>)
                \o <<"\n">>
           /\ Newlines(line[r]) = {Len(line[r])}

\* a text line with both optional fields has been formatted
C16_Witness ==
    \E r \in Requests :
        /\ line[r] # <<>> /\ finalConfig.format = Text
        /\ finalConfig.includeIp = JsTrue /\ finalConfig.includeUserAgent = JsTrue
        /\ Contains(line[r], <<" - ", "10.0.0.1", " - ", "unknown", "\n">>)

\* C17: a request whose write has been dispatched eventually finishes and
\* is continued, aborted or not, whatever the other requests do.
C17_EveryRequestFinishes ==
    \A r \in 1..MaxLiveReq :
        (pc[r] \in {"mkdir", "append"}) ~> (Done(r) /\ nextArgs[r] # <<>>)

\* an aborted request has finished while another write is in flight
C17_Witness ==
    \E r, q \in Requests :
        /\ Done(r) /\ aborted[r] /\ nextArgs[r] # <<>>
        /\ pc[q] \in {"mkdir", "append"}

WriterSteps == <<"capture", "format", "mkdir", "appendFile">>

Count(r, step) == Cardinality({i \in DOMAIN calls[r] : calls[r][i] = step})

\* C19: every enabled request makes exactly one mkdir attempt and at most
\* one append attempt; the append is attempted only after mkdir succeeded
\* or reported EEXIST, not after mkdir failed; and a finished request makes
\* no further attempt.
C19_OneAttemptNoRetry ==
    \A r \in Requests :
        /\ Count(r, "mkdir") <= 1 /\ Count(r, "appendFile") <= 1
        /\ Done(r) /\ LoggingEnabled(finalConfig) => Count(r, "mkdir") = 1
        /\ Count(r, "appendFile") = 1
              => /\ Count(r, "mkdir") = 1
                 /\ fault[r].stage = "mkdir" => Is(fault[r].err, "EEXIST")
        /\ pc[r] = "append" => Count(r, "appendFile") = 1

\* C20: the file is a sequence of whole lines, each the formatted entry of
\* a finished request whose append succeeded, one per such request; every
\* step leaves the file as it is or appends one such line, and a step in
\* which a write fails leaves it as it is.
C20_FileInvariant ==
    \A i \in DOMAIN file :
        LET r == file[i].by
        IN  /\ file[i].line = selectFormatter(finalConfig.format, captured[r])
            /\ Newlines(file[i].line) = {Len(file[i].line)}
            /\ Done(r) /\ ~Failed(r)
            /\ LinesOf(r) = {i}

C20_FileStep ==
    /\ \/ file' = file
       \/ \E r \in Requests :
            /\ pc[r] = "append" /\ fault'[r] = fault[r]
            /\ file' = Append(file, [by |-> r, line |-> line[r]])
    /\ (\E r \in Requests : fault'[r] # fault[r]) => file' = file

C20_AppendOnly == []C20_FileInvariant /\ [][C20_FileStep]_vars

\* one request was logged, then the append of another failed
C20_Witness ==
    \E a, b \in Requests :
        /\ LinesOf(a) # {} /\ a \in doneBefore[b]
        /\ Done(b) /\ fault[b].stage = "append" /\ Len(file) = 1

\* the state the handler keeps for one request
PerRequest(q) ==
    <<pc[q], req[q], captured[q], line[q], calls[q], fault[q], doneBefore[q],
      nextArgs[q], promise[q], consoleError[q], events[q], aborted[q]>>

C21_Independent ==
    \A b \in Requests :
        Done(b) /\ Truthy(finalConfig.enabled)
        => /\ calls[b] # <<>>
           /\ ~Failed(b) => /\ consoleError[b] = <<>>
                            /\ Cardinality(LinesOf(b)) = 1
                            /\ \A i \in LinesOf(b) : file[i].line = line[b]

C21_OneRequestPerStep ==
    \E r \in Requests :
        \A q \in Requests \ {r} : PerRequest(q)' = PerRequest(q)

\* C21: whatever failures other requests met, an enabled request is still
\* captured and attempted, and when its own write succeeded its line is in
\* the file and it has no error report; a step of one request changes the
\* per-request state of no other request.
C21_NoInterference == []C21_Independent /\ [][C21_OneRequestPerStep]_vars

\* a request that entered after another's write had failed is logged
C21_Witness ==
    \E a, b \in Requests :
        /\ Done(a) /\ WriterFailed(a) /\ a \in doneBefore[b]
        /\ Done(b) /\ LinesOf(b) # {} /\ consoleError[b] = <<>>

\* the append of r resolves now and its line is the last of the file
AppendsNow(r) ==
    /\ AppendSettle(r, {})
    /\ file' = file \o << [by |-> r, line |-> line[r]] >>

C22_EitherMaySettle ==
    \A a, b \in Requests :
        (/\ a # b /\ pc[a] = "append" /\ pc[b] = "append"
         /\ Dirname(LogPath) \in dirs)
        => ENABLED AppendsNow(a) /\ ENABLED AppendsNow(b)

C22_LandsLast ==
    \A r \in Requests :
        pc[r] = "append" /\ pc'[r] = "done" /\ fault'[r] = fault[r]
        => file' = file \o << [by |-> r, line |-> line[r]] >>

\* C22: nothing orders two writes in flight: whenever two appends are
\* pending either may resolve next, and a resolved append puts its line
\* after whatever is in the file at that moment, not at a place given by
\* the order of entry.
C22_NoWriteOrder == []C22_EitherMaySettle /\ [][C22_LandsLast]_vars

\* A entered strictly before B, both were in flight together, and B's line
\* is before A's in the file
C22_Witness ==
    \E a, b \in Requests :
        /\ Get(captured[a], "timestamp") = Timestamp(0)
        /\ Get(captured[b], "timestamp") = Timestamp(1)
        /\ a \notin doneBefore[b] /\ b \notin doneBefore[a]
        /\ \E i \in LinesOf(a), j \in LinesOf(b) : j < i

\* the first token of the error message inside the report of r: the text
\* the writer chose for the failure
ReportedMessageHead(r) ==
    Report(r)[Len(ReportPrefix) + Len(req[r].method) + 1 + Len(req[r].url) + 2]

\* the class a message stands for
ClassOfMessage(head) ==
    CASE head = "Permission denied"       -> "permission"
      [] head = "No space left on device" -> "space"
      [] OTHER                            -> "generic"

\* the class of a file system error by its code
ClassOfCode(error) ==
    IF Is(error, "EACCES") THEN "permission"
    ELSE IF Is(error, "ENOSPC") THEN "space"
    ELSE "generic"

\* C23: the failure that reaches the middleware from the writer has the
\* class of the code of the underlying file system error, at the mkdir
\* stage as at the append stage (EACCES permission, ENOSPC no space, any
\* other generic), and a generic one carries the underlying message.
C23_ClassifiedByCode ==
    \A r \in Requests :
        Done(r) /\ WriterFailed(r)
        => /\ ClassOfMessage(ReportedMessageHead(r)) = ClassOfCode(fault[r].err)
           /\ ClassOfCode(fault[r].err) = "generic"
                 => Contains(Report(r), fault[r].err.message)

\* C24: when mkdir rejects with EEXIST the writer goes on to the append and
\* nothing is reported for it; when the append then resolves the request's
\* line is in the file.
C24_ExistingDirectoryIsSuccess ==
    \A r \in Requests :
        fault[r].stage = "mkdir" /\ Is(fault[r].err, "EEXIST")
        => /\ calls[r] = WriterSteps
           /\ consoleError[r] = <<>>
           /\ Done(r) => /\ Cardinality(LinesOf(r)) = 1
                         /\ \A i \in LinesOf(r) : file[i].line = line[r]

\* a request whose mkdir rejected with EEXIST is logged
C24_Witness ==
    \E r \in Requests :
        /\ fault[r].stage = "mkdir" /\ Is(fault[r].err, "EEXIST")
        /\ Done(r) /\ LinesOf(r) # {} /\ events[r] = <<"next">>

\* C25: capture never throws: every enabled request that was handled has a
\* log entry with timestamp, method and url, with ip and userAgent when
\* they are enabled, neither of them empty.
C25_CaptureCannotFail ==
    \A r \in Requests :
        /\ fault[r].stage # "capture"
        /\ Done(r) /\ Truthy(finalConfig.enabled)
              => /\ Keys(captured[r]) = ExpectedKeys
                 /\ \A i \in DOMAIN captured[r] : captured[r][i].v # <<>>

C26_ResolvedAsAtConstruction ==
    /\ defaults = DEFAULT_CONFIG
    /\ finalConfig = validateAndMergeConfig(userConfig)
    /\ \A i \in DOMAIN others :
          /\ others[i].config = others[i].given
          /\ others[i].finalConfig = validateAndMergeConfig(others[i].given)

C26_ReadOnlyAfterwards ==
    /\ finalConfig' = finalConfig /\ userConfig' = userConfig
    /\ \A i \in DOMAIN others : others'[i] = others[i]
    /\ \/ warnings' = warnings
       \/ /\ Len(others') = Len(others) + 1
          /\ warnings' = warnings \o ConfigWarnings(others'[Len(others')].given)

\* C26: the configuration is resolved at construction and read-only after:
\* no step of a request changes the resolved configuration or emits a
\* warning (warnings come only with a call of createRequestLogger), and
\* construction leaves the caller's object and DEFAULT_CONFIG as they were,
\* so every instance resolves as it would alone.
C26_ResolvedOnce == []C26_ResolvedAsAtConstruction /\ [][C26_ReadOnlyAfterwards]_vars

\* an instance was built with an invalid format, one with no configuration
\* after it resolved to the defaults, and a request has been handled
C26_Witness ==
    /\ \E i, j \in DOMAIN others :
          /\ i < j
          /\ others[i].given.format = JsStr(<<"bogus">>)
          /\ others[j].given = NoConfig /\ others[j].finalConfig = DEFAULT_CONFIG
    /\ warnings # <<>>
    /\ \E r \in Requests : Done(r)

\* the first entry of the forwarded-for header, trimmed; empty when the
\* header is absent
FirstForwarded(rq) == IF rq.xff = UndefS THEN <<>> ELSE Trim(FirstPart(rq.xff))

\* C27: the ip of a captured entry is the first forwarded-for entry,
\* trimmed, when that is not empty; else the remote address when there is
\* one; else 'unknown'.  It is never empty, it is taken as it is, and an
\* entry has an ip exactly when includeIp is set.
C27_IpDerivation ==
    \A r \in Requests :
        captured[r] # <<>>
        => LET ip == Get(captured[r], "ip")
           IN  IF finalConfig.includeIp = JsTrue
               THEN /\ ip # <<>> /\ ip # UndefS
                    /\ ip = IF FirstForwarded(req[r]) # <<>>
                            THEN FirstForwarded(req[r])
                            ELSE IF req[r].hasSocket /\ TruthyS(req[r].remoteAddress)
                            THEN req[r].remoteAddress
                            ELSE <<"unknown">>
               ELSE ip = UndefS

\* a request whose first forwarded-for entry is blank was logged with the
\* remote address
C27_Witness ==
    \E r \in Requests :
        /\ req[r].xff = <<" ", ",", "10.0.0.2">>
        /\ Get(captured[r], "ip") = <<"::1">>
        /\ LinesOf(r) # {}

\* C28: the line of a request is the text form of its entry exactly when
\* the resolved format is 'text', and the JSON form for every other value,
\* the ones validation let through unchanged included.
C28_FormatterTotal ==
    \A r \in Requests :
        Len(calls[r]) >= 2
        => /\ line[r] = IF finalConfig.format = Text THEN formatAsText(captured[r])
                                                     ELSE formatAsJson(captured[r])
           /\ line[r] = formatAsText(captured[r]) <=> finalConfig.format = Text

\* a request was logged as JSON under a format that is not a string
C28_Witness ==
    \E r \in Requests :
        /\ finalConfig.format = JsNull
        /\ LinesOf(r) # {} /\ ParseJson(line[r]).ok

C30_OwnMkdir ==
    \A r \in Requests :
        /\ pc[r] = "append" => calls[r] = WriterSteps /\ Dirname(LogPath) \in dirs
        /\ Done(r) => calls[r] = WriterSteps /\ fault[r] = NoFault

C30_Recreated ==
    \A r \in Requests :
        pc[r] = "append" /\ pc'[r] = "done"
        => /\ Dirname(LogPath) \in dirs' /\ fileExists'
           /\ file' = file \o << [by |-> r, line |-> line[r]] >>

\* C30: every enabled request issues its own mkdir before its append, so
\* when the append is about to run the directory exists, whatever was
\* removed from outside before the request, and the request's line is
\* written: no request fails because of an earlier removal.
C30_NoDirectoryCache == []C30_OwnMkdir /\ [][C30_Recreated]_vars

\* a request was logged, its line was removed from outside with the file or
\* the directory, and a later request found the directory there and is logged
C30_Witness ==
    \E a, b \in Requests :
        /\ a \in doneBefore[b]
        /\ Done(a) /\ calls[a] = WriterSteps /\ fault[a] = NoFault /\ LinesOf(a) = {}
        /\ Done(b) /\ LinesOf(b) # {} /\ Dirname(LogPath) \in dirs
        /\ Dirname(LogPath) \notin dirs0

====
